---- MODULE Spec2Model ----
(***************************************************************************)
(* One POST /chat turn of LLMServer (src/src/server.ts): the request       *)
(* listener's try/catch, handleChat, prepareMessages and                   *)
(* summarizeConversation, against a language-model backend whose calls     *)
(* (selectChatModels, countTokens, sendRequest, the response stream) may   *)
(* each succeed or throw.                                                  *)
(*                                                                         *)
(* A text is a sequence of words; string concatenation is \o.  The backend *)
(* counts one token per word.                                              *)
(***************************************************************************)
EXTENDS Integers, Sequences, FiniteSets, TLC

VARIABLES
    pc,           \* position of the turn inside the listener / handleChat
    request,      \* the request body as received
    models,       \* handleChat's local `models`, the list selectChatModels returned
    model,        \* the descriptor models.find returned (NoModel before)
    adapted,      \* what prepareMessages returned
    messages,     \* handleChat's local `messages`
    messagesRef,  \* the array `messages` refers to: prepareMessages' or a new one
    inputTokens,  \* handleChat's local `inputTokens`
    summary,      \* summarizeConversation's local `summary`
    content,      \* handleChat's local `content`
    calls,        \* the sendRequest calls issued so far, in order
    nSelect,      \* number of selectChatModels calls issued
    nCount,       \* number of countTokens calls issued
    failed,       \* the backend steps that threw during this turn
    caught,       \* the err of handleChat's catch block (NoError before)
    responses     \* the responses written to res, in order

\* Concurrent turns of one server, each with handleChat's locals of its own.
VARIABLES
    turns,        \* the locals of every turn in flight, by turn
    solo          \* the same turns, each run alone against the same backend answers

\* The extension (src/src/extension.ts) and the LLMServer instances it made.
VARIABLES
    activated,    \* activate has run
    server,       \* the module variable `server`: an index into instances, 0 for undefined
    instances     \* every LLMServer constructed so far, with its http.Server

concVars == <<turns, solo>>
lifeVars == <<activated, server, instances>>

\* What a step of the single turn leaves alone.
elsewhere == <<concVars, lifeVars>>

vars == <<pc, request, models, model, adapted, messages, messagesRef,
          inputTokens, summary, content, calls, nSelect, nCount, failed, caught,
          responses>>

----------------------------------------------------------------------------
(* Bounds of the model *)

MaxMsgs == 5
MaxFrags == 1

(* Program constants *)

KeepLast == 4
ThresholdNum == 8
ThresholdDen == 10

----------------------------------------------------------------------------
(* Inputs *)

\* The roles a caller can put on the wire.  "tool" stands for any role
\* outside the three the ChatMessage interface names.
Roles == {"user", "system", "assistant", "tool"}

\* The content of the i-th message of a conversation: every message has a
\* text of its own, of one word at odd positions and of two at even ones.
ContentAt(i) ==
    IF i % 2 = 1 THEN <<"msg" \o ToString(i)>>
    ELSE <<"msg" \o ToString(i), "more">>

\* The conversations a caller sends: up to MaxMsgs messages, any role at
\* any position.
Conversations ==
    UNION { { [i \in 1..n |-> [role |-> r[i], content |-> ContentAt(i)]] :
                r \in [1..n -> Roles] } : n \in 0..MaxMsgs }

\* chatRequest.model after JSON.parse: absent, a string or a number.
ModelFields ==
    { [t |-> "undefined", v |-> ""],
      [t |-> "string", v |-> ""],
      [t |-> "number", v |-> "123"],
      [t |-> "string", v |-> "fam"],
      [t |-> "string", v |-> "big"],
      [t |-> "string", v |-> "nonexistent-id"] }

\* chatRequest.messages after JSON.parse: absent, a non-array or an array.
MessagesFields ==
    { [t |-> "undefined", v |-> <<>>], [t |-> "string", v |-> <<>>] }
    \cup { [t |-> "array", v |-> c] : c \in Conversations }

NoField == [t |-> "undefined", v |-> ""]
NoMessages == [t |-> "undefined", v |-> <<>>]

\* The request body: text that is not JSON, the JSON value null, a JSON
\* value that is no object (a string), or a JSON object.
Bodies ==
    { [json |-> j, model |-> NoField, messages |-> NoMessages] :
        j \in {"invalid", "null", "string"} }
    \cup { [json |-> "object", model |-> m, messages |-> ms] :
            m \in ModelFields, ms \in MessagesFields }

NoBody == [json |-> "none", model |-> NoField, messages |-> NoMessages]

\* Model descriptors the provider can list.  The first descriptor's family
\* is the second one's id, and both share nothing else.
ModelA == [id |-> "small", family |-> "fam", maxInputTokens |-> 5]
ModelB == [id |-> "fam",   family |-> "big", maxInputTokens |-> 7]
NoModel == [id |-> "", family |-> "", maxInputTokens |-> 0]

ModelLists == { <<ModelA, ModelB>>, <<>> }

\* What a backend call can throw: a LanguageModelError with a code, or any
\* other Error; each carries a message, possibly empty.
Errors ==
    { [lm |-> TRUE,  code |-> "NoPermissions", message |-> "no consent"],
      [lm |-> TRUE,  code |-> "Blocked",       message |-> "filtered"],
      [lm |-> TRUE,  code |-> "NotFound",      message |-> "gone"],
      [lm |-> FALSE, code |-> "",              message |-> ""] }

NoError == [lm |-> FALSE, code |-> "", message |-> "none"]

Fragment == <<"frag">>

----------------------------------------------------------------------------
(* Pure helpers *)

\* JavaScript truthiness of a parsed field: undefined, "" and 0 are falsy.
Truthy(f) ==
    CASE f.t = "undefined" -> FALSE
      [] f.t = "string"    -> f.v # ""
      [] f.t = "number"    -> f.v # "0"

\* chatRequest.messages is truthy and Array.isArray(chatRequest.messages):
\* an absent field is falsy, a non-empty string is truthy but no array, an
\* array (the empty one included) is both.
IsArray(f) == f.t = "array"

\* The validation of handleChat: TRUE when the request is let through.
Validate(b) == Truthy(b.model) /\ IsArray(b.messages)

\* models.find((m) => m.id === chatRequest.model || m.family === chatRequest.model):
\* the first match in list order, NoModel for undefined.  === never equates
\* a string with a number.
Matches(m, f) == f.t = "string" /\ (m.id = f.v \/ m.family = f.v)

\* A lookup that prefers an exact id over a family match.
FindIdFirst(list, f) ==
    IF \E i \in 1..Len(list) : f.t = "string" /\ list[i].id = f.v
    THEN list[CHOOSE i \in 1..Len(list) : list[i].id = f.v]
    ELSE IF \E i \in 1..Len(list) : f.t = "string" /\ list[i].family = f.v
         THEN list[CHOOSE i \in 1..Len(list) :
                      /\ list[i].family = f.v
                      /\ \A j \in 1..(i - 1) : list[j].family # f.v]
         ELSE NoModel

Find(list, f) ==
    IF \E i \in 1..Len(list) : Matches(list[i], f)
    THEN list[CHOOSE i \in 1..Len(list) :
                 /\ Matches(list[i], f)
                 /\ \A j \in 1..(i - 1) : ~Matches(list[j], f)]
    ELSE NoModel

User(text) == [channel |-> "User", content |-> text]
Assistant(text) == [channel |-> "Assistant", content |-> text]

\* prepareMessages: user and system become User messages, assistant becomes
\* an Assistant message, an entry with any other role is skipped.
RECURSIVE prepareMessages(_)
prepareMessages(ms) ==
    IF ms = <<>> THEN <<>>
    ELSE LET msg == Head(ms)
             rest == prepareMessages(Tail(ms))
         IN  IF msg.role = "user" \/ msg.role = "system"
             THEN <<User(msg.content)>> \o rest
             ELSE IF msg.role = "assistant"
                  THEN <<Assistant(msg.content)>> \o rest
                  ELSE rest

\* model.countTokens on a message or on a text: one token per word.
countTokens(text) == Len(text)

\* The counting loop of handleChat run to its end.
RECURSIVE SumTokens(_)
SumTokens(ms) ==
    IF ms = <<>> THEN 0
    ELSE countTokens(Head(ms).content) + SumTokens(Tail(ms))

\* The test written with >=.
OverThresholdInclusive(tokens, m) ==
    tokens * ThresholdDen >= m.maxInputTokens * ThresholdNum

\* inputTokens > model.maxInputTokens * 0.8.  For integer operands the
\* double product compares with an integer exactly as 8 * max / 10 does.
OverThreshold(tokens, m) ==
    tokens * ThresholdDen > m.maxInputTokens * ThresholdNum

\* originalMessages.map((m) => `${m.role}: ${m.content}`).join('\n\n')
RECURSIVE Transcript(_)
Transcript(ms) ==
    IF ms = <<>> THEN <<>>
    ELSE <<Head(ms).role \o ":">> \o Head(ms).content
         \o (IF Tail(ms) = <<>> THEN <<>> ELSE <<"\n\n">> \o Transcript(Tail(ms)))

SummaryPrompt(original) ==
    User(<<"Please", "provide", "a", "concise", "summary:">> \o Transcript(original))

\* The filter taking system messages for user messages, as the adapter does.
UserMessagesAndSystem(original) ==
    SelectSeq(original, LAMBDA m : m.role = "user" \/ m.role = "system")

\* originalMessages.filter((m) => m.role === 'user').pop()
UserMessages(original) == SelectSeq(original, LAMBDA m : m.role = "user")

\* The success path of summarizeConversation: the summary message, then the
\* last user message when there is one.
SummaryMessages(sum, original) ==
    LET users == UserMessages(original)
    IN  <<User(<<"Previous", "conversation", "summary:">> \o sum)>>
        \o (IF users # <<>> THEN <<User(users[Len(users)].content)>> ELSE <<>>)

\* currentMessages.slice(0, 4)
TruncateHead(ms) ==
    IF Len(ms) <= KeepLast THEN ms ELSE SubSeq(ms, 1, KeepLast)

\* currentMessages.slice(-4)
Truncate(ms) ==
    IF Len(ms) <= KeepLast THEN ms ELSE SubSeq(ms, Len(ms) - KeepLast + 1, Len(ms))

----------------------------------------------------------------------------
(* Responses *)

ErrorBody(text) ==
    [fields |-> {"error"}, error |-> text, content |-> <<>>,
     input_tokens |-> 0, output_tokens |-> 0]

SuccessBody(text, inTok, outTok) ==
    [fields |-> {"content", "usage"}, error |-> "", content |-> text,
     input_tokens |-> inTok, output_tokens |-> outTok]

Response(status, body) == [status |-> status, body |-> body]

\* The catch block of the request listener.
InternalError == Response(500, ErrorBody("Internal server error"))

\* A catch block without the Blocked branch.
MapErrorNoBlocked(e) ==
    IF e.lm /\ e.code = "NoPermissions"
    THEN Response(403, ErrorBody("Permission denied. Please accept the Copilot consent dialog in VS Code."))
    ELSE Response(500, ErrorBody("Chat request failed: "
                                 \o (IF e.message = "" THEN "Unknown error" ELSE e.message)))

\* The catch block of handleChat.
MapError(e) ==
    IF e.lm /\ e.code = "NoPermissions"
    THEN Response(403, ErrorBody("Permission denied. Please accept the Copilot consent dialog in VS Code."))
    ELSE IF e.lm /\ e.code = "Blocked"
         THEN Response(400, ErrorBody("Content blocked by model"))
         ELSE Response(500, ErrorBody("Chat request failed: "
                                      \o (IF e.message = "" THEN "Unknown error" ELSE e.message)))

----------------------------------------------------------------------------
(* The turn *)

\* No concurrent turn is modelled.
NoTurns == turns = <<>> /\ solo = <<>>

\* The extension is not modelled.
NoExtension == activated = FALSE /\ server = 0 /\ instances = <<>>

\* A POST /chat request has been dispatched to handleChat.
ChatInit ==
    /\ pc = "idle"
    /\ request = NoBody
    /\ models = <<>>
    /\ model = NoModel
    /\ adapted = <<>>
    /\ messages = <<>>
    /\ messagesRef = "none"
    /\ inputTokens = 0
    /\ summary = <<>>
    /\ content = <<>>
    /\ calls = <<>>
    /\ nSelect = 0
    /\ nCount = 0
    /\ failed = {}
    /\ caught = NoError
    /\ responses = <<>>

Init == ChatInit /\ NoTurns /\ NoExtension

\* res.writeHead(status); res.end(body); the turn is over.
Finish(r) ==
    /\ responses' = Append(responses, r)
    /\ pc' = "done"

\* handleChat's catch block takes err and answers by its class.
Catch(e) ==
    /\ caught' = e
    /\ Finish(MapError(e))

\* readBody rejects: the listener's catch answers.
ReadBodyFails ==
    /\ pc = "idle"
    /\ failed' = failed \cup {"body"}
    /\ Finish(InternalError)
    /\ UNCHANGED <<request, model, adapted, messages, inputTokens, summary,
                   content, calls, nSelect, nCount, caught, models,
                   messagesRef, elsewhere>>

\* readBody, JSON.parse and the validation, up to the await of
\* selectChatModels.
ReadBody ==
    /\ pc = "idle"
    /\ \E b \in Bodies :
        /\ request' = b
        /\ CASE b.json = "invalid" ->
                  Finish(Response(400, ErrorBody("Invalid JSON")))
             [] b.json = "null" ->
                  \* chatRequest.model on null throws outside handleChat's try
                  Finish(InternalError)
             [] OTHER ->
                  IF Validate(b)
                  THEN pc' = "select" /\ UNCHANGED responses
                  ELSE Finish(Response(400, ErrorBody(
                         "Invalid request. Required: model (string), messages (array)")))
    /\ UNCHANGED <<model, adapted, messages, inputTokens, summary, content,
                   calls, nSelect, nCount, failed, caught, models,
                   messagesRef, elsewhere>>

\* selectChatModels throws: outside handleChat's try, so the listener's
\* catch answers.
SelectFails ==
    /\ pc = "select"
    /\ nSelect' = nSelect + 1
    /\ failed' = failed \cup {"select"}
    /\ Finish(InternalError)
    /\ UNCHANGED <<request, model, adapted, messages, inputTokens, summary,
                   content, calls, nCount, caught, models, messagesRef,
                   elsewhere>>

\* selectChatModels returns, models.find, and on a match prepareMessages.
SelectModels ==
    /\ pc = "select"
    /\ nSelect' = nSelect + 1
    /\ \E list \in ModelLists :
        LET found == Find(list, request.model)
        IN  /\ models' = list
            /\ IF found = NoModel
               THEN /\ Finish(Response(404, ErrorBody("Model not found")))
                    /\ UNCHANGED <<model, adapted, messages, messagesRef>>
               ELSE /\ model' = found
                    /\ adapted' = prepareMessages(request.messages.v)
                    /\ messages' = prepareMessages(request.messages.v)
                    /\ messagesRef' = "adapted"
                    /\ pc' = "count"
                    /\ UNCHANGED responses
    /\ UNCHANGED <<request, inputTokens, summary, content, calls, nCount,
                   failed, caught, elsewhere>>

\* The summarization step left out.
AfterCountNoSummary(tokens) == "send"

\* The threshold test of handleChat after the first counting loop: the
\* position the turn goes to.
AfterCount(tokens) ==
    IF OverThreshold(tokens, model) THEN "summarize" ELSE "send"

\* A countTokens call of the first loop throws at message i: handleChat's
\* catch answers.
CountInputFails ==
    /\ pc = "count"
    /\ \E i \in 1..Len(messages), e \in Errors :
        /\ nCount' = nCount + i
        /\ failed' = failed \cup {"count"}
        /\ Catch(e)
    /\ UNCHANGED <<request, model, adapted, messages, inputTokens, summary,
                   content, calls, nSelect, models, messagesRef, elsewhere>>

\* The first counting loop, one countTokens call per message, and the
\* threshold test.
CountInput ==
    /\ pc = "count"
    /\ inputTokens' = SumTokens(messages)
    /\ nCount' = nCount + Len(messages)
    /\ pc' = AfterCount(SumTokens(messages))
    /\ UNCHANGED <<request, model, adapted, messages, summary, content,
                   calls, nSelect, failed, responses, caught, models,
                   messagesRef, elsewhere>>

SummaryCall == [kind |-> "summary", model |-> model.id,
                messages |-> <<SummaryPrompt(request.messages.v)>>]

MainCall == [kind |-> "main", model |-> model.id, messages |-> messages]

\* The catch block of summarizeConversation (its local `summary` is gone
\* with the try block; slice returns a new array), and the reset of
\* inputTokens before the second loop.
Fallback(step) ==
    /\ failed' = failed \cup {step}
    /\ messages' = Truncate(messages)
    /\ messagesRef' = "fresh"
    /\ summary' = <<>>
    /\ inputTokens' = 0
    /\ pc' = "recount"

\* The catch block written with splice(-4): the last entries are cut out of
\* currentMessages itself and returned.
SummarySendFailsSplice ==
    /\ pc = "summarize"
    /\ calls' = Append(calls, SummaryCall)
    /\ failed' = failed \cup {"summary"}
    /\ messages' = Truncate(messages)
    /\ adapted' = SubSeq(adapted, 1, Len(adapted) - Len(Truncate(adapted)))
    /\ messagesRef' = "fresh"
    /\ summary' = <<>>
    /\ inputTokens' = 0
    /\ pc' = "recount"
    /\ UNCHANGED <<request, model, content, nSelect, nCount, responses,
                   caught, models, elsewhere>>

\* model.sendRequest([summaryPrompt], {}) throws; the catch block does not
\* look at the error.
SummarySendFails ==
    /\ pc = "summarize"
    /\ calls' = Append(calls, SummaryCall)
    /\ \E e \in Errors : Fallback("summary")
    /\ UNCHANGED <<request, model, adapted, content, nSelect, nCount,
                   responses, caught, models, elsewhere>>

\* model.sendRequest([summaryPrompt], {}) returns its response.
SummarySend ==
    /\ pc = "summarize"
    /\ calls' = Append(calls, SummaryCall)
    /\ summary' = <<>>
    /\ pc' = "sumstream"
    /\ UNCHANGED <<request, model, adapted, messages, inputTokens, content,
                   nSelect, nCount, failed, responses, caught, models,
                   messagesRef, elsewhere>>

\* summaryResponse.text yields a fragment.
SummaryFragment ==
    /\ pc = "sumstream"
    /\ Len(summary) < MaxFrags
    /\ summary' = summary \o Fragment
    /\ UNCHANGED <<pc, request, model, adapted, messages, inputTokens,
                   content, calls, nSelect, nCount, failed, responses,
                   caught, models, messagesRef, elsewhere>>

\* summaryResponse.text throws.
SummaryStreamFails ==
    /\ pc = "sumstream"
    /\ \E e \in Errors : Fallback("sumstream")
    /\ UNCHANGED <<request, model, adapted, content, calls, nSelect, nCount,
                   responses, caught, models, elsewhere>>

\* summaryResponse.text ends: summarizeConversation returns the new
\* messages and handleChat resets inputTokens.
SummaryEnd ==
    /\ pc = "sumstream"
    /\ messages' = SummaryMessages(summary, request.messages.v)
    /\ messagesRef' = "fresh"
    /\ inputTokens' = 0
    /\ pc' = "recount"
    /\ UNCHANGED <<request, model, adapted, summary, content, calls, nSelect,
                   nCount, failed, responses, caught, models, elsewhere>>

\* A countTokens call of the second loop throws at message i.
RecountFails ==
    /\ pc = "recount"
    /\ \E i \in 1..Len(messages), e \in Errors :
        /\ nCount' = nCount + i
        /\ failed' = failed \cup {"recount"}
        /\ Catch(e)
    /\ UNCHANGED <<request, model, adapted, messages, inputTokens, summary,
                   content, calls, nSelect, models, messagesRef, elsewhere>>

\* The second loop left out: inputTokens keeps the count of the first loop.
RecountStale ==
    /\ pc = "recount"
    /\ inputTokens' = SumTokens(adapted)
    /\ pc' = "send"
    /\ UNCHANGED <<request, models, model, adapted, messages, summary,
                   content, calls, nSelect, nCount, failed, caught,
                   responses, messagesRef, elsewhere>>

\* The threshold tested again after the second loop, summarizing once more
\* while the count stays above it.
RecountAgain ==
    /\ pc = "recount"
    /\ inputTokens' = SumTokens(messages)
    /\ nCount' = nCount + Len(messages)
    /\ pc' = AfterCount(SumTokens(messages))
    /\ UNCHANGED <<request, model, adapted, messages, summary, content,
                   calls, nSelect, failed, responses, caught, models,
                   messagesRef, elsewhere>>

\* The second counting loop.
Recount ==
    /\ pc = "recount"
    /\ inputTokens' = SumTokens(messages)
    /\ nCount' = nCount + Len(messages)
    /\ pc' = "send"
    /\ UNCHANGED <<request, model, adapted, messages, summary, content,
                   calls, nSelect, failed, responses, caught, models,
                   messagesRef, elsewhere>>

\* model.sendRequest(messages, {}) throws.
MainSendFails ==
    /\ pc = "send"
    /\ calls' = Append(calls, MainCall)
    /\ failed' = failed \cup {"main"}
    /\ \E e \in Errors : Catch(e)
    /\ UNCHANGED <<request, model, adapted, messages, inputTokens, summary,
                   content, nSelect, nCount, models, messagesRef, elsewhere>>

\* model.sendRequest(messages, {}) returns its response.
MainSend ==
    /\ pc = "send"
    /\ calls' = Append(calls, MainCall)
    /\ content' = <<>>
    /\ pc' = "stream"
    /\ UNCHANGED <<request, model, adapted, messages, inputTokens, summary,
                   nSelect, nCount, failed, responses, caught, models,
                   messagesRef, elsewhere>>

\* response.text yields a fragment.
MainFragment ==
    /\ pc = "stream"
    /\ Len(content) < MaxFrags
    /\ content' = content \o Fragment
    /\ UNCHANGED <<pc, request, model, adapted, messages, inputTokens,
                   summary, calls, nSelect, nCount, failed, responses,
                   caught, models, messagesRef, elsewhere>>

\* A stream error swallowed: the fragments received so far are answered 200.
MainStreamFailsPartial ==
    /\ pc = "stream"
    /\ failed' = failed \cup {"stream"}
    /\ Finish(Response(200, SuccessBody(content, inputTokens, countTokens(content))))
    /\ UNCHANGED <<request, models, model, adapted, messages, inputTokens,
                   summary, content, calls, nSelect, nCount, caught,
                   messagesRef, elsewhere>>

\* response.text throws.
MainStreamFails ==
    /\ pc = "stream"
    /\ failed' = failed \cup {"stream"}
    /\ \E e \in Errors : Catch(e)
    /\ UNCHANGED <<request, model, adapted, messages, inputTokens, summary,
                   content, calls, nSelect, nCount, models, messagesRef,
                   elsewhere>>

\* response.text ends.
MainEnd ==
    /\ pc = "stream"
    /\ pc' = "countout"
    /\ UNCHANGED <<request, model, adapted, messages, inputTokens, summary,
                   content, calls, nSelect, nCount, failed, responses,
                   caught, models, messagesRef, elsewhere>>

\* model.countTokens(content) throws.
CountOutputFails ==
    /\ pc = "countout"
    /\ nCount' = nCount + 1
    /\ failed' = failed \cup {"countout"}
    /\ \E e \in Errors : Catch(e)
    /\ UNCHANGED <<request, model, adapted, messages, inputTokens, summary,
                   content, calls, nSelect, models, messagesRef, elsewhere>>

\* model.countTokens(content) returns; the 200 response is written.
CountOutput ==
    /\ pc = "countout"
    /\ nCount' = nCount + 1
    /\ Finish(Response(200, SuccessBody(content, inputTokens, countTokens(content))))
    /\ UNCHANGED <<request, model, adapted, messages, inputTokens, summary,
                   content, calls, nSelect, failed, caught, models,
                   messagesRef, elsewhere>>

Next ==
    \/ ReadBodyFails \/ ReadBody
    \/ SelectFails \/ SelectModels
    \/ CountInputFails \/ CountInput
    \/ SummarySendFails \/ SummarySend
    \/ SummaryFragment \/ SummaryStreamFails \/ SummaryEnd
    \/ RecountFails \/ Recount
    \/ MainSendFails \/ MainSend
    \/ MainFragment \/ MainStreamFails \/ MainEnd
    \/ CountOutputFails \/ CountOutput

Spec == Init /\ [][Next]_vars

----------------------------------------------------------------------------
(* Concurrent turns: the listener runs handleChat once per request, and the *)
(* turns interleave at their awaits.  A turn's state is the record of       *)
(* handleChat's locals; a step takes the turn from one await to the next.   *)

NTurns == 2

Turns == 1..NTurns

\* A conversation with the given roles, in order.
Conv(roles) ==
    [i \in 1..Len(roles) |-> [role |-> roles[i], content |-> ContentAt(i)]]

\* The requests of the concurrent turns: a short conversation for the
\* second listed model and a long one for the first.
ConcBodies ==
    { [json |-> "object", model |-> [t |-> "string", v |-> "big"],
       messages |-> [t |-> "array", v |-> Conv(<<"user">>)]],
      [json |-> "object", model |-> [t |-> "string", v |-> "fam"],
       messages |-> [t |-> "array",
                     v |-> Conv(<<"user", "assistant", "system", "user", "assistant">>)]] }

\* What the turn is resumed with: the request body, or the outcome of the
\* backend call it awaits.
Answer(kind) ==
    [kind |-> kind, body |-> NoBody, list |-> <<>>, error |-> NoError]

ConcErrors == { e \in Errors : e.code = "NoPermissions" }

Throws == { [Answer("throw") EXCEPT !.error = e] : e \in ConcErrors }

\* The answers a turn at position s.pc can be resumed with; a stream
\* yields at most one fragment before it ends.
Answers(s) ==
    CASE s.pc = "idle" ->
            { [Answer("body") EXCEPT !.body = b] : b \in ConcBodies }
      [] s.pc = "select" ->
            { [Answer("models") EXCEPT !.list = <<ModelA, ModelB>>] }
      [] s.pc \in {"count", "recount", "countout"} -> { Answer("counted") }
      [] s.pc = "summarize" -> { Answer("response") } \cup Throws
      [] s.pc = "sumstream" ->
            { Answer("end") }
            \cup (IF s.summary = <<>> THEN { Answer("fragment") } ELSE {})
      [] s.pc = "send" -> { Answer("response") }
      [] s.pc = "stream" ->
            { Answer("end") } \cup Throws
            \cup (IF s.content = <<>> THEN { Answer("fragment") } ELSE {})
      [] OTHER -> {}

\* handleChat's locals when the request is dispatched.
NewTurn ==
    [pc |-> "idle", request |-> NoBody, model |-> NoModel, adapted |-> <<>>,
     messages |-> <<>>, inputTokens |-> 0, summary |-> <<>>, content |-> <<>>,
     decision |-> "none", sent |-> <<>>, responses |-> <<>>]

Respond(s, r) == [s EXCEPT !.pc = "done", !.responses = Append(s.responses, r)]

\* The catch block of summarizeConversation, for a turn.
TurnFallback(s) ==
    [s EXCEPT !.messages = Truncate(s.messages), !.summary = <<>>,
              !.decision = "truncated", !.inputTokens = 0, !.pc = "recount"]

\* handleChat from one await to the next, resumed with answer a.
StepTurn(s, a) ==
    CASE s.pc = "idle" ->
            IF a.body.json = "invalid"
            THEN Respond(s, Response(400, ErrorBody("Invalid JSON")))
            ELSE IF a.body.json = "null"
                 THEN Respond([s EXCEPT !.request = a.body], InternalError)
                 ELSE IF Validate(a.body)
                      THEN [s EXCEPT !.request = a.body, !.pc = "select"]
                      ELSE Respond([s EXCEPT !.request = a.body],
                                   Response(400, ErrorBody(
                           "Invalid request. Required: model (string), messages (array)")))
      [] s.pc = "select" ->
            IF a.kind = "throw" THEN Respond(s, InternalError)
            ELSE LET found == Find(a.list, s.request.model)
                 IN  IF found = NoModel
                     THEN Respond(s, Response(404, ErrorBody("Model not found")))
                     ELSE [s EXCEPT !.model = found,
                                    !.adapted = prepareMessages(s.request.messages.v),
                                    !.messages = prepareMessages(s.request.messages.v),
                                    !.pc = "count"]
      [] s.pc = "count" ->
            IF a.kind = "throw" THEN Respond(s, MapError(a.error))
            ELSE LET tokens == SumTokens(s.messages)
                 IN  IF OverThreshold(tokens, s.model)
                     THEN [s EXCEPT !.inputTokens = tokens, !.pc = "summarize"]
                     ELSE [s EXCEPT !.inputTokens = tokens, !.decision = "within",
                                    !.pc = "send"]
      [] s.pc = "summarize" ->
            IF a.kind = "throw" THEN TurnFallback(s)
            ELSE [s EXCEPT !.summary = <<>>, !.pc = "sumstream"]
      [] s.pc = "sumstream" ->
            IF a.kind = "throw" THEN TurnFallback(s)
            ELSE IF a.kind = "fragment"
                 THEN [s EXCEPT !.summary = s.summary \o Fragment]
                 ELSE [s EXCEPT !.messages =
                                   SummaryMessages(s.summary, s.request.messages.v),
                                !.decision = "summarized", !.inputTokens = 0,
                                !.pc = "recount"]
      [] s.pc = "recount" ->
            IF a.kind = "throw" THEN Respond(s, MapError(a.error))
            ELSE [s EXCEPT !.inputTokens = SumTokens(s.messages), !.pc = "send"]
      [] s.pc = "send" ->
            IF a.kind = "throw"
            THEN Respond([s EXCEPT !.sent = s.messages], MapError(a.error))
            ELSE [s EXCEPT !.sent = s.messages, !.content = <<>>, !.pc = "stream"]
      [] s.pc = "stream" ->
            IF a.kind = "throw" THEN Respond(s, MapError(a.error))
            ELSE IF a.kind = "fragment"
                 THEN [s EXCEPT !.content = s.content \o Fragment]
                 ELSE [s EXCEPT !.pc = "countout"]
      [] s.pc = "countout" ->
            IF a.kind = "throw" THEN Respond(s, MapError(a.error))
            ELSE Respond(s, Response(200, SuccessBody(s.content, s.inputTokens,
                                                      countTokens(s.content))))
      [] OTHER -> s

\* inputTokens kept in one place for all turns, as a field of the server
\* would be: the turn that counts overwrites the count of the others.
HandleSharedCount(t, a) ==
    LET next == StepTurn(turns[t], a)
    IN  turns' = [u \in Turns |->
                    IF u = t THEN next
                    ELSE [turns[u] EXCEPT !.inputTokens = next.inputTokens]]

\* The step of turn t in the server: handleChat reads and writes its own
\* locals and no field of the LLMServer.
Handle(t, a) ==
    turns' = [turns EXCEPT ![t] = StepTurn(turns[t], a)]

\* The same step of the same turn run alone.
Alone(t, a) ==
    solo' = [solo EXCEPT ![t] = StepTurn(solo[t], a)]

ConcInit ==
    /\ ChatInit
    /\ NoExtension
    /\ turns = [t \in Turns |-> NewTurn]
    /\ solo = [t \in Turns |-> NewTurn]

\* The request of turn t has been read.
Arrive ==
    /\ \E t \in Turns :
        /\ turns[t].pc = "idle"
        /\ \E a \in Answers(turns[t]) : Handle(t, a) /\ Alone(t, a)
    /\ UNCHANGED <<vars, lifeVars>>

\* The backend call turn t awaits settles and the turn runs to its next await.
Resume ==
    /\ \E t \in Turns :
        /\ turns[t].pc \notin {"idle", "done"}
        /\ \E a \in Answers(turns[t]) : Handle(t, a) /\ Alone(t, a)
    /\ UNCHANGED <<vars, lifeVars>>

ConcNext == Arrive \/ Resume

ConcSpec == ConcInit /\ [][ConcNext]_<<vars, concVars, lifeVars>>

----------------------------------------------------------------------------
(* The extension: activation and the two commands create, start and stop   *)
(* LLMServer instances; listen, error and close call back later.           *)

MaxServers == 3

\* The port is bound by instance i, or instance i is still to bind it.
Live(i) == instances[i].http \in {"pending", "listening"}

\* new LLMServer(3434) followed by start(): createServer, on('error'),
\* listen(port, 'localhost', cb).  overLive records whether an earlier
\* instance was listening or waiting for its listen callback.
NewServer ==
    [http |-> "pending", running |-> FALSE, hasServer |-> TRUE,
     closing |-> FALSE, stopped |-> FALSE,
     overLive |-> \E i \in DOMAIN instances : Live(i)]

isRunning(i) == instances[i].running

CreateAndStart ==
    /\ instances' = Append(instances, NewServer)
    /\ server' = Len(instances) + 1

\* activate(): the server is created and started at once.
Activate ==
    /\ ~activated
    /\ activated' = TRUE
    /\ CreateAndStart
    /\ UNCHANGED <<vars, concVars>>

\* llm-api.startServer
StartCommand ==
    /\ activated
    /\ IF server # 0 /\ isRunning(server)
       THEN UNCHANGED <<server, instances>>
       ELSE /\ Len(instances) < MaxServers
            /\ CreateAndStart
    /\ UNCHANGED <<activated, vars, concVars>>

\* llm-api.stopServer: stop() calls close(cb) when this.server is set.  A
\* listening socket is released at once; a listen still under way is either
\* abandoned or carried through, depending on the runtime.
StopCommand ==
    /\ activated
    /\ server # 0
    /\ LET s == instances[server]
       IN  IF s.hasServer
           THEN \E h \in (CASE s.http = "listening" -> {"closed"}
                            [] s.http = "pending" -> {"pending", "closed"}
                            [] OTHER -> {s.http}) :
                    instances' = [instances EXCEPT ![server] =
                        [s EXCEPT !.http = h, !.closing = TRUE, !.stopped = TRUE]]
           ELSE instances' = [instances EXCEPT ![server].stopped = TRUE]
    /\ UNCHANGED <<activated, server, vars, concVars>>

\* The callback of listen: the port was free.
ListenCallback ==
    /\ \E i \in DOMAIN instances :
        /\ instances[i].http = "pending"
        /\ \A j \in DOMAIN instances : instances[j].http # "listening"
        /\ instances' = [instances EXCEPT ![i].http = "listening",
                                          ![i].running = TRUE]
    /\ UNCHANGED <<activated, server, vars, concVars>>

\* The 'error' handler: the port was taken, by another instance or by
\* another process.
ErrorCallback ==
    /\ \E i \in DOMAIN instances :
        /\ instances[i].http = "pending"
        /\ instances' = [instances EXCEPT ![i].http = "errored",
                                          ![i].running = FALSE]
    /\ UNCHANGED <<activated, server, vars, concVars>>

\* The callback of close.
CloseCallback ==
    /\ \E i \in DOMAIN instances :
        /\ instances[i].closing
        /\ instances' = [instances EXCEPT ![i].closing = FALSE,
                                          ![i].running = FALSE,
                                          ![i].hasServer = FALSE]
    /\ UNCHANGED <<activated, server, vars, concVars>>

LifeInit == ChatInit /\ NoTurns /\ NoExtension

LifeNext ==
    \/ Activate
    \/ StartCommand
    \/ StopCommand
    \/ ListenCallback
    \/ ErrorCallback
    \/ CloseCallback

LifeSpec == LifeInit /\ [][LifeNext]_<<vars, concVars, lifeVars>>

----------------------------------------------------------------------------
(* What the properties speak of *)

Started == model # NoModel

Original == request.messages.v

\* 0.8 * model.maxInputTokens against the summed counts of the adapted list.
AdaptedTokens == SumTokens(adapted)
WithinBudget == AdaptedTokens * 5 <= model.maxInputTokens * 4

\* The first counting loop is over and did not throw.
Counted == pc \notin {"idle", "select", "count"} /\ "count" \notin failed

CallsOf(kind) == SelectSeq(calls, LAMBDA c : c.kind = kind)

Answered(status) ==
    pc = "done" /\ Len(responses) = 1 /\ responses[1].status = status

SummaryFailed == failed \cap {"summary", "sumstream"} # {}

\* The summarization call and its stream both ended without an error.
SummarySucceeded ==
    /\ CallsOf("summary") # <<>>
    /\ ~SummaryFailed
    /\ pc \in {"recount", "send", "stream", "countout", "done"}

----------------------------------------------------------------------------
(* Properties *)

\* C1: in a turn whose adapted messages count to at most 0.8 *
\* maxInputTokens (equality included), no summarization call is issued, and
\* once counting is over the only completion call of the turn is the main
\* call, sent to the resolved model with exactly the adapted list.
C1_WithinBudgetIdentity ==
    (Started /\ WithinBudget) =>
        /\ CallsOf("summary") = <<>>
        /\ Len(calls) <= 1
        /\ \A i \in 1..Len(calls) :
              calls[i] = [kind |-> "main", model |-> model.id, messages |-> adapted]
        /\ (Counted /\ pc # "send") => Len(calls) = 1
        /\ Counted => messages = adapted

\* A turn at exactly 80% of the budget answered 200 after a single call.
C1_Witness ==
    /\ Answered(200)
    /\ adapted # <<>>
    /\ AdaptedTokens * 5 = model.maxInputTokens * 4
    /\ Len(calls) = 1

\* C2: in a turn whose adapted messages count to more than 0.8 *
\* maxInputTokens, exactly one summarization call is issued, to the resolved
\* model, it is the first call and the main call (to the same model) comes
\* after it, and the input token count the main call goes out with is the
\* count of the message set it sends.
C2_OverBudgetSummarizesOnce ==
    (Started /\ ~WithinBudget) =>
        /\ Len(CallsOf("summary")) <= 1
        /\ Len(CallsOf("main")) <= 1
        /\ (Counted /\ pc # "summarize") =>
              /\ Len(CallsOf("summary")) = 1
              /\ calls[1].kind = "summary"
              /\ calls[1].model = model.id
        /\ \A i \in 1..Len(calls) :
              calls[i].kind = "main" =>
                  /\ i = 2
                  /\ calls[1].kind = "summary"
                  /\ calls[i].model = calls[1].model
                  /\ inputTokens = SumTokens(calls[i].messages)

\* An over-budget turn answered 200 after the summary call and the main
\* call, with a count that differs from the first loop's.
C2_Witness ==
    /\ Answered(200)
    /\ ~WithinBudget
    /\ Len(calls) = 2
    /\ calls[1].kind = "summary" /\ calls[2].kind = "main"
    /\ inputTokens # AdaptedTokens

\* C3: when the summarization call fails, at the request or in its stream
\* and whatever the error, the turn goes on with the last 4 entries of the
\* adapted list in order, the whole list when it has fewer; that is what
\* the main call sends, and with no other failure the turn is answered 200.
C3_FallbackKeepsLastFour ==
    SummaryFailed =>
        LET n == Len(adapted)
            k == IF n < 4 THEN n ELSE 4
        IN  /\ Len(messages) = k
            /\ \A i \in 1..k : messages[i] = adapted[n - k + i]
            /\ \A i \in 1..Len(calls) :
                  calls[i].kind = "main" => calls[i].messages = messages
            /\ pc # "done" => responses = <<>>
            /\ (pc = "done" /\ failed \subseteq {"summary", "sumstream"})
                  => Answered(200)

\* The stream of the summary threw on a five-message adapted list and the
\* turn was answered 200 with the last four.
C3_Witness ==
    /\ Answered(200)
    /\ "sumstream" \in failed
    /\ Len(adapted) = 5
    /\ Len(calls[2].messages) = 4

\* C4: the input_tokens of a 200 response is the sum of the token counts of
\* the messages the main call sent, a natural number.
C4_UsageCountsWhatWasSent ==
    Answered(200) =>
        /\ calls # <<>>
        /\ calls[Len(calls)].kind = "main"
        /\ responses[1].body.input_tokens = SumTokens(calls[Len(calls)].messages)
        /\ responses[1].body.input_tokens \in Nat

\* A 200 response after a successful summarization whose input_tokens
\* differs from the count of the adapted list.
C4_Witness ==
    /\ Answered(200)
    /\ SummarySucceeded
    /\ responses[1].body.input_tokens # AdaptedTokens
    /\ responses[1].body.input_tokens > 0

\* Positions of the messages of the original conversation whose role is user.
UserPositions == { i \in 1..Len(Original) : Original[i].role = "user" }

LastUserPosition == CHOOSE i \in UserPositions : \A j \in UserPositions : j <= i

\* C5: after a successful summarization the main call sends the summary
\* message "Previous conversation summary: " + summary on the user channel,
\* followed, if and only if the original conversation has a message of role
\* user, by a user-channel message with the content of the last such message.
C5_SummaryThenLastUser ==
    SummarySucceeded =>
        /\ Len(messages) = (IF UserPositions = {} THEN 1 ELSE 2)
        /\ messages[1] = [channel |-> "User",
                          content |-> <<"Previous", "conversation", "summary:">> \o summary]
        /\ UserPositions # {} =>
              messages[2] = [channel |-> "User",
                             content |-> Original[LastUserPosition].content]
        /\ \A i \in 1..Len(calls) :
              calls[i].kind = "main" => calls[i].messages = messages

\* A summarized turn with two user messages and a system message after
\* the last of them, answered 200 with a non-empty summary.
C5_Witness ==
    /\ Answered(200)
    /\ SummarySucceeded
    /\ Cardinality(UserPositions) >= 2
    /\ \E i \in 1..Len(Original) : i > LastUserPosition /\ Original[i].role = "system"
    /\ summary # <<>>
    /\ Len(calls[2].messages) = 2

InvalidJSONText == "Invalid JSON"
InvalidRequestText == "Invalid request. Required: model (string), messages (array)"
BlockedText == "Content blocked by model"

\* The body is a JSON object with a string model and an array of messages.
WellShaped(b) ==
    b.json = "object" /\ b.model.t = "string" /\ b.messages.t = "array"

\* C6: a body that parses as JSON but lacks model or messages, or has either
\* in the wrong shape, is answered 400 with the invalid-request body and no
\* model resolution is attempted; a body with a string model and an array
\* of messages, the empty array included, goes on to model resolution.
C6_ShapeValidation ==
    request.json \in {"null", "string", "object"} =>
        IF WellShaped(request)
        THEN nSelect >= 1 \/ pc = "select"
        ELSE /\ Answered(400)
             /\ responses[1].body.fields = {"error"}
             /\ responses[1].body.error = InvalidRequestText
             /\ nSelect = 0

\* selectChatModels returned its list.
Listed == nSelect >= 1 /\ "select" \notin failed

\* Positions of the listed descriptors whose id or family is the requested
\* identifier.
Hits ==
    { i \in 1..Len(models) :
        /\ request.model.t = "string"
        /\ (models[i].id = request.model.v \/ models[i].family = request.model.v) }

\* C7: once the provider has listed its models, the resolved model is the
\* first listed descriptor whose id or family equals the requested
\* identifier; when there is none the turn is answered 404 "Model not
\* found" with no token-counting call and no completion call issued.
C7_ModelResolution ==
    Listed =>
        IF Hits = {}
        THEN /\ Answered(404)
             /\ responses[1].body.error = "Model not found"
             /\ model = NoModel
             /\ nCount = 0
             /\ calls = <<>>
        ELSE /\ model = models[CHOOSE i \in Hits : \A j \in Hits : i <= j]
             /\ ~Answered(404)

\* A turn answered 200 that resolved "fam" to the first descriptor, by its
\* family, although the second descriptor has that id.
C7_Witness ==
    /\ Answered(200)
    /\ request.model.v = "fam"
    /\ Len(models) = 2
    /\ models[2].id = "fam"
    /\ model = models[1]

\* The main completion call threw, at the request or in its stream.
MainFailed == failed \cap {"main", "stream"} # {}

\* What C8 says of the class of a main-call failure and of the status set.
C8_Mapping(texts400) ==
    /\ MainFailed =>
          /\ pc = "done" /\ Len(responses) = 1
          /\ responses[1].body.fields = {"error"}
          /\ IF caught.lm /\ caught.code = "NoPermissions"
             THEN responses[1].status = 403
             ELSE IF caught.lm /\ caught.code = "Blocked"
                  THEN responses[1].body.error = BlockedText
                  ELSE /\ responses[1].status = 500
                       /\ caught.message # "" =>
                             responses[1].body.error
                                = "Chat request failed: " \o caught.message
    /\ \A i \in 1..Len(responses) :
          /\ responses[i].status \in {200, 400, 403, 404, 500}
          /\ responses[i].status = 400 => responses[i].body.error \in texts400
          /\ responses[i].status = 404 => responses[i].body.error = "Model not found"

\* C8 as stated: a failure of the main completion call is answered by its
\* class (no-permission 403, blocked content the content-blocked error, any
\* other 500 carrying the backend's message), and a chat request is answered
\* 200, 400 for invalid JSON or an invalid shape, 403, 404 for a model not
\* found, or 500.
C8_StatusByClass == C8_Mapping({InvalidJSONText, InvalidRequestText})

\* C8 as amended: the same, with 400 also the status of blocked content.
C8_StatusByClassAmended ==
    /\ C8_Mapping({InvalidJSONText, InvalidRequestText, BlockedText})
    /\ (MainFailed /\ caught.lm /\ caught.code = "Blocked") => Answered(400)

\* The stream of the main call threw a Blocked error and the turn was
\* answered 400.
C8_Witness ==
    /\ Answered(400)
    /\ "stream" \in failed
    /\ caught.lm /\ caught.code = "Blocked"
    /\ responses[1].body.error = BlockedText

\* C9: for a conversation that passed validation the adapter returns one
\* native message per input message, in order: user and system on the user
\* channel, assistant on the assistant channel, none dropped or merged.
C9_AdapterKeepsEveryMessage ==
    Started =>
        /\ Len(adapted) = Len(Original)
        /\ \A i \in 1..Len(Original) :
              /\ adapted[i].content = Original[i].content
              /\ Original[i].role \in {"user", "system"} => adapted[i].channel = "User"
              /\ Original[i].role = "assistant" => adapted[i].channel = "Assistant"

\* C10: a chat request is answered at most once and exactly once when the
\* turn is over; the answer is a 200 body of content and usage or a non-200
\* body of a single error string; a 200 is written only after model
\* resolution, every token count and the main call with its whole stream
\* succeeded, so that only the summarization step can have failed before it,
\* and any other failure ends the turn with a non-200 answer.
C10_OneAnswer ==
    /\ Len(responses) <= 1
    /\ (pc = "done") <=> (Len(responses) = 1)
    /\ pc # "done" => ENABLED Next
    /\ \A i \in 1..Len(responses) :
          LET r == responses[i]
          IN  /\ r.status = 200 =>
                    /\ r.body.fields = {"content", "usage"}
                    /\ failed \subseteq {"summary", "sumstream"}
                    /\ Started
                    /\ Len(CallsOf("main")) = 1
                    /\ r.body.content = content
              /\ r.status # 200 =>
                    /\ r.body.fields = {"error"}
                    /\ r.body.error # ""
    /\ (failed \ {"summary", "sumstream"}) # {} =>
          /\ pc = "done"
          /\ responses[1].status # 200

\* A turn answered 200 with content although its summarization call had
\* failed.
C10_Witness ==
    /\ Answered(200)
    /\ failed = {"summary"}
    /\ responses[1].body.content # <<>>

\* C11: a turn issues at most one summarization call and at most one main
\* call, two completion calls at most; once the summarization step is over
\* the main call is issued exactly once, also when the recomputed count is
\* still above 0.8 * maxInputTokens, and a main call that failed ends the
\* turn without being issued again.
C11_NoRetry ==
    /\ Len(CallsOf("summary")) <= 1
    /\ Len(CallsOf("main")) <= 1
    /\ Len(calls) <= 2
    /\ nSelect <= 1
    /\ pc \in {"summarize", "sumstream", "recount", "send"} => CallsOf("main") = <<>>
    /\ (Started /\ pc \in {"stream", "countout", "done"}
          /\ failed \cap {"count", "recount"} = {})
          => Len(CallsOf("main")) = 1
    /\ MainFailed => (pc = "done" /\ Len(CallsOf("main")) = 1)

\* A turn answered 200 after one summary call and one main call whose
\* recomputed count was still above the threshold.
C11_Witness ==
    /\ Answered(200)
    /\ Len(calls) = 2
    /\ calls[1].kind = "summary"
    /\ inputTokens * 5 > model.maxInputTokens * 4

\* What a step taken inside summarizeConversation does to its inputs.
SummarizeStepKeepsInputs ==
    pc \in {"summarize", "sumstream"} =>
        /\ request' = request
        /\ adapted' = adapted
        /\ pc' = "recount" => (messagesRef = "adapted" /\ messagesRef' = "fresh")

\* C12: the steps of summarizeConversation leave the caller's original
\* conversation and the adapted list as they were, on the summary path and
\* on the truncation path, and what the call returns is an array of its own,
\* not the adapted one.
C12_InputsNotMutated == [][SummarizeStepKeepsInputs]_vars

\* The truncation path has returned four of five adapted messages and the
\* adapted list still has its five.
C12_Witness ==
    /\ pc = "recount"
    /\ SummaryFailed
    /\ messagesRef = "fresh"
    /\ Len(adapted) = 5
    /\ Len(messages) = 4
    /\ adapted = prepareMessages(Original)

C14_SingleServer ==
    /\ Cardinality({ i \in DOMAIN instances : Live(i) /\ ~instances[i].stopped }) <= 1
    /\ \A i \in DOMAIN instances : ~instances[i].overLive
    /\ \A i \in DOMAIN instances :
          isRunning(i) =>
              \/ instances[i].http = "listening"
              \/ instances[i].http = "closed" /\ instances[i].closing

====
